---- MODULE Spec2Model ----
(***************************************************************************)
(* phantom-server: configuration precedence (defaults -> JSON file ->      *)
(* .env), the two-argument merger, and the signal-driven shutdown of the   *)
(* HTTP server process.                                                    *)
(*                                                                         *)
(* A Go string is a sequence of one-character strings, so that Atoi,       *)
(* ParseBool, Split and TrimSpace are computed character by character.     *)
(* A *Config is an address into heap.cfgs (0 is nil); a []string is an     *)
(* address into heap.arrs (0 is the nil slice).                            *)
(***************************************************************************)
EXTENDS Integers, Sequences, FiniteSets, TLC

VARIABLES heap, base, override, result, mpc,
          file, env, procEnv, cfg, jsonCfg, jsonErr, envCfg, loadErr,
          pc, gpc, server, listener, bindOutcome, inShutdown, sigChan,
          serverErr, active, accepted, ctxDone, shutdownCalls,
          inFlightAtDrain, retErr,
          exitCode, logs,
          third, left, right,
          middlewares, chained, stack, executionOrder, req, resp

vars == <<heap, base, override, result, mpc,
          file, env, procEnv, cfg, jsonCfg, jsonErr, envCfg, loadErr,
          pc, gpc, server, listener, bindOutcome, inShutdown, sigChan,
          serverErr, active, accepted, ctxDone, shutdownCalls,
          inFlightAtDrain, retErr,
          exitCode, logs,
          third, left, right,
          middlewares, chained, stack, executionOrder, req, resp>>

mergeVars == <<base, override, result, mpc>>
loadVars == <<file, env, procEnv, cfg, jsonCfg, jsonErr, envCfg, loadErr>>
srvCore == <<gpc, server, listener, bindOutcome, inShutdown, sigChan,
             serverErr, active, accepted, ctxDone, shutdownCalls, inFlightAtDrain, retErr>>
serverVars == <<srvCore, exitCode, logs>>
assocVars == <<third, left, right>>
httpVars == <<middlewares, chained, stack, executionOrder, req, resp>>
otherVars == <<assocVars, httpVars>>

(***************************************************************************)
(* Bounds                                                                  *)
(***************************************************************************)
\* longest allowed-origins list drawn for an operand, a file or a .env value
MaxOrigins == 2
\* most connections the listener accepts in one run
MaxConns == 2
\* longest list of middlewares handed to Chain
MaxChain == 3

(***************************************************************************)
(* Strings                                                                 *)
(***************************************************************************)
NilPtr == 0

\* the exit status of a process that has not exited
NoExit == -1

Star == <<"*">>
GET == <<"G", "E", "T">>
POST == <<"P", "O", "S", "T">>
PUT == <<"P", "U", "T">>
DELETE == <<"D", "E", "L", "E", "T", "E">>
OPTIONS == <<"O", "P", "T", "I", "O", "N", "S">>

Digits == <<"0", "1", "2", "3", "4", "5", "6", "7", "8", "9">>

IsDigit(c) == \E i \in 1..10 : Digits[i] = c

DigitVal(c) == (CHOOSE i \in 1..10 : Digits[i] = c) - 1

RECURSIVE DigitsValue(_)
DigitsValue(s) ==
    IF s = <<>> THEN 0
    ELSE 10 * DigitsValue(SubSeq(s, 1, Len(s) - 1)) + DigitVal(s[Len(s)])

\* strconv.Atoi: an optional sign followed by one or more decimal digits
Atoi(s) ==
    LET signed == s # <<>> /\ s[1] \in {"+", "-"}
        body == IF signed THEN Tail(s) ELSE s
    IN IF body = <<>> \/ \E i \in 1..Len(body) : ~IsDigit(body[i])
       THEN [ok |-> FALSE, val |-> 0]
       ELSE [ok |-> TRUE,
             val |-> IF signed /\ s[1] = "-" THEN 0 - DigitsValue(body)
                     ELSE DigitsValue(body)]

TrueTokens == {<<"1">>, <<"t">>, <<"T">>, <<"T", "R", "U", "E">>,
               <<"t", "r", "u", "e">>, <<"T", "r", "u", "e">>}

FalseTokens == {<<"0">>, <<"f">>, <<"F">>, <<"F", "A", "L", "S", "E">>,
                <<"f", "a", "l", "s", "e">>, <<"F", "a", "l", "s", "e">>}

\* strconv.ParseBool
ParseBool(s) ==
    IF s \in TrueTokens THEN [ok |-> TRUE, val |-> TRUE]
    ELSE IF s \in FalseTokens THEN [ok |-> TRUE, val |-> FALSE]
    ELSE [ok |-> FALSE, val |-> FALSE]

\* strings.Split(s, ","): always at least one element
RECURSIVE Split(_)
Split(s) ==
    IF \A i \in 1..Len(s) : s[i] # ","
    THEN <<s>>
    ELSE LET k == CHOOSE i \in 1..Len(s) :
                      s[i] = "," /\ \A j \in 1..(i - 1) : s[j] # ","
         IN <<SubSeq(s, 1, k - 1)>> \o Split(SubSeq(s, k + 1, Len(s)))

WhiteSpace == {" ", "\t", "\n", "\r"}

\* strings.TrimSpace
RECURSIVE TrimSpace(_)
TrimSpace(s) ==
    IF s = <<>> THEN s
    ELSE IF s[1] \in WhiteSpace THEN TrimSpace(Tail(s))
    ELSE IF s[Len(s)] \in WhiteSpace THEN TrimSpace(SubSeq(s, 1, Len(s) - 1))
    ELSE s

\* the elements left as Split produced them
TrimAll_None(xs) == xs

TrimAll(xs) == [i \in 1..Len(xs) |-> TrimSpace(xs[i])]

(***************************************************************************)
(* Heap                                                                    *)
(***************************************************************************)
EmptyHeap == [cfgs |-> <<>>, arrs |-> <<>>]

\* make([]string, n) followed by copy: a fresh backing array
NewSlice(h, xs) ==
    [heap |-> [h EXCEPT !.arrs = Append(@, xs)], ret |-> Len(h.arrs) + 1]

\* &Config{...}: a fresh struct
NewConfig(h, c) ==
    [heap |-> [h EXCEPT !.cfgs = Append(@, c)], ret |-> Len(h.cfgs) + 1]

SliceVal(h, a) == IF a = NilPtr THEN <<>> ELSE h.arrs[a]

\* the value a *Config denotes: scalars and slice contents
Val(h, p) ==
    LET c == h.cfgs[p]
    IN [Port |-> c.Port,
        ShutdownTimeout |-> c.ShutdownTimeout,
        ReadTimeout |-> c.ReadTimeout,
        WriteTimeout |-> c.WriteTimeout,
        AllowedOrigins |-> SliceVal(h, c.AllowedOrigins),
        AllowedMethods |-> SliceVal(h, c.AllowedMethods),
        EnableLogging |-> c.EnableLogging]

(***************************************************************************)
(* Configuration model and default provider                                *)
(***************************************************************************)
DefaultPort == 8080
DefaultShutdownTimeout == 30
DefaultReadTimeout == 10
DefaultWriteTimeout == 10
DefaultOrigins == <<Star>>
DefaultMethods == <<GET, POST, PUT, DELETE, OPTIONS>>
DefaultEnableLogging == TRUE

\* var config Config: every field at the zero value of its type
ZeroServerConfig ==
    [Port |-> 0, ShutdownTimeout |-> 0, ReadTimeout |-> 0, WriteTimeout |-> 0,
     AllowedOrigins |-> NilPtr, AllowedMethods |-> NilPtr,
     EnableLogging |-> FALSE]

\* a default provider that leaves Port and AllowedOrigins unset
GetDefaultConfig_Unset(h) ==
    LET m == NewSlice(h, DefaultMethods)
    IN NewConfig(m.heap,
                 [Port |-> 0,
                  ShutdownTimeout |-> DefaultShutdownTimeout,
                  ReadTimeout |-> DefaultReadTimeout,
                  WriteTimeout |-> DefaultWriteTimeout,
                  AllowedOrigins |-> NilPtr,
                  AllowedMethods |-> m.ret,
                  EnableLogging |-> DefaultEnableLogging])

GetDefaultConfig(h) ==
    LET o == NewSlice(h, DefaultOrigins)
        m == NewSlice(o.heap, DefaultMethods)
    IN NewConfig(m.heap,
                 [Port |-> DefaultPort,
                  ShutdownTimeout |-> DefaultShutdownTimeout,
                  ReadTimeout |-> DefaultReadTimeout,
                  WriteTimeout |-> DefaultWriteTimeout,
                  AllowedOrigins |-> o.ret,
                  AllowedMethods |-> m.ret,
                  EnableLogging |-> DefaultEnableLogging])

DefaultValue == Val(GetDefaultConfig(EmptyHeap).heap, 1)

(***************************************************************************)
(* Configuration merger                                                    *)
(***************************************************************************)
\* the override's port taken even when it is zero
MergedPort_ZeroOverrides(b, o) == o.Port

\* if override.Server.Port != 0 { result.Server.Port = override.Server.Port }
MergedPort(b, o) == IF o.Port # 0 THEN o.Port ELSE b.Port

\* the rule for overridable integers applied to the shutdown timeout
MergedShutdownTimeout_NonZeroWins(b, o) ==
    IF o.ShutdownTimeout # 0 THEN o.ShutdownTimeout ELSE b.ShutdownTimeout

\* ShutdownTimeout: base.Server.ShutdownTimeout, never overridden
MergedShutdownTimeout(b, o) == b.ShutdownTimeout

MergedReadTimeout(b, o) == b.ReadTimeout

\* the two write timeouts blended into their mean
MergedWriteTimeout_Averaged(b, o) == (b.WriteTimeout + o.WriteTimeout) \div 2

MergedWriteTimeout(b, o) == b.WriteTimeout

\* the boolean kept from base unless the override differs from the default
MergedEnableLogging_KeepBase(b, o) ==
    IF o.EnableLogging # DefaultEnableLogging THEN o.EnableLogging
    ELSE b.EnableLogging

\* result.Server.EnableLogging = override.Server.EnableLogging
MergedEnableLogging(b, o) == o.EnableLogging

\* precedence inverted: the override's list used only when base has none
MergedOrigins_BaseWins(bs, os) == IF Len(bs) > 0 THEN bs ELSE os

\* the contents copied into result.Server.AllowedOrigins
MergedOrigins(bs, os) == IF Len(os) > 0 THEN os ELSE bs

\* make([]string, len) without the copy: a list of empty strings
MergedMethods_NoCopy(bs, os) == [i \in 1..Len(bs) |-> <<>>]

\* the contents copied into result.Server.AllowedMethods
MergedMethods(bs, os) == bs

\* a nil base replaced by an empty Config instead of the defaults
BaseOrDefault_Zero(h, b) ==
    IF b = NilPtr THEN NewConfig(h, ZeroServerConfig)
    ELSE [heap |-> h, ret |-> b]

\* if base == nil { base = GetDefaultConfig() }
BaseOrDefault(h, b) ==
    IF b = NilPtr THEN GetDefaultConfig(h) ELSE [heap |-> h, ret |-> b]

\* if override == nil { return base }
MergeNilOverride(h, b) == [heap |-> h, ret |-> b]

MergeConfigs(h, b0, ov) ==
    LET bd == BaseOrDefault(h, b0)
        h1 == bd.heap
        b == h1.cfgs[bd.ret]
    IN IF ov = NilPtr THEN MergeNilOverride(h1, bd.ret)
       ELSE LET o == h1.cfgs[ov]
                bs == SliceVal(h1, b.AllowedOrigins)
                os == SliceVal(h1, o.AllowedOrigins)
                \* make + copy from base
                s1 == NewSlice(h1, bs)
                s2 == NewSlice(s1.heap,
                               MergedMethods(SliceVal(h1, b.AllowedMethods),
                                             SliceVal(h1, o.AllowedMethods)))
                \* a second make + copy when the override's list is non-empty
                s3 == IF Len(os) > 0
                      THEN NewSlice(s2.heap, MergedOrigins(bs, os))
                      ELSE [heap |-> s2.heap, ret |-> s1.ret]
            IN NewConfig(s3.heap,
                         [Port |-> MergedPort(b, o),
                          ShutdownTimeout |-> MergedShutdownTimeout(b, o),
                          ReadTimeout |-> MergedReadTimeout(b, o),
                          WriteTimeout |-> MergedWriteTimeout(b, o),
                          AllowedOrigins |-> s3.ret,
                          AllowedMethods |-> s2.ret,
                          EnableLogging |-> MergedEnableLogging(b, o)])

(***************************************************************************)
(* The merger on arbitrary operands (as TestMergeConfigs calls it)         *)
(***************************************************************************)
OriginN(i) == <<"h", Digits[i + 1]>>

OriginPrefix(n) == [i \in 1..n |-> OriginN(i)]

OperandPorts == {0, 3000, DefaultPort}

\* <<ShutdownTimeout, ReadTimeout, WriteTimeout>>
OperandTimeouts ==
    {<<DefaultShutdownTimeout, DefaultReadTimeout, DefaultWriteTimeout>>,
     <<45, 0, 20>>, <<0, 15, 0>>}

\* index -1 is the nil slice, 0 the empty slice, MaxOrigins + 1 is ["*"]
OperandOriginChoices == (-1)..(MaxOrigins + 1)

OperandOrigins(h, i) ==
    IF i = -1 THEN [heap |-> h, ret |-> NilPtr]
    ELSE IF i = MaxOrigins + 1 THEN NewSlice(h, DefaultOrigins)
    ELSE NewSlice(h, OriginPrefix(i))

OperandMethodChoices == 0..2

OperandMethods(h, i) ==
    IF i = 0 THEN [heap |-> h, ret |-> NilPtr]
    ELSE IF i = 1 THEN NewSlice(h, <<GET, POST>>)
    ELSE NewSlice(h, DefaultMethods)

\* &Config{Server: ServerConfig{...}} with the chosen field values
Operand(h, p, t, oi, mi, l) ==
    LET o == OperandOrigins(h, oi)
        m == OperandMethods(o.heap, mi)
    IN NewConfig(m.heap,
                 [Port |-> p, ShutdownTimeout |-> t[1], ReadTimeout |-> t[2],
                  WriteTimeout |-> t[3], AllowedOrigins |-> o.ret,
                  AllowedMethods |-> m.ret, EnableLogging |-> l])

IdleLoad ==
    /\ file = "none" /\ env = "none" /\ procEnv = "none"
    /\ cfg = NilPtr /\ jsonCfg = NilPtr /\ jsonErr = "nil"
    /\ envCfg = NilPtr /\ loadErr = "nil"

\* no merge of three operands and no request is being made
IdleOther ==
    /\ third = NilPtr /\ left = NilPtr /\ right = NilPtr
    /\ middlewares = <<>> /\ chained = <<>> /\ stack = <<>>
    /\ executionOrder = <<>> /\ req = "none" /\ resp = "none"

IdleServer ==
    /\ gpc = "idle" /\ server = "none" /\ listener = "none"
    /\ bindOutcome = "none" /\ inShutdown = FALSE /\ sigChan = 0
    /\ serverErr = 0 /\ active = 0 /\ accepted = 0 /\ ctxDone = FALSE
    /\ inFlightAtDrain = 0 /\ shutdownCalls = 0 /\ retErr = "none"
    /\ exitCode = NoExit /\ logs = {}

InitMerge ==
    /\ IdleOther
    /\ heap = EmptyHeap
    /\ base = NilPtr /\ override = NilPtr /\ result = NilPtr
    /\ mpc = "base" /\ pc = "test"
    /\ IdleLoad /\ IdleServer

NewBaseNil ==
    /\ mpc = "base"
    /\ base' = NilPtr /\ mpc' = "override"
    /\ UNCHANGED <<heap, override, result, pc>>
    /\ UNCHANGED loadVars /\ UNCHANGED serverVars
    /\ UNCHANGED otherVars

NewBase ==
    /\ mpc = "base"
    /\ \E p \in OperandPorts, t \in OperandTimeouts,
          oi \in OperandOriginChoices, mi \in OperandMethodChoices,
          l \in BOOLEAN :
          LET c == Operand(heap, p, t, oi, mi, l)
          IN heap' = c.heap /\ base' = c.ret
    /\ mpc' = "override"
    /\ UNCHANGED <<override, result, pc>>
    /\ UNCHANGED loadVars /\ UNCHANGED serverVars
    /\ UNCHANGED otherVars

NewOverrideNil ==
    /\ mpc = "override"
    /\ override' = NilPtr /\ mpc' = "merge"
    /\ UNCHANGED <<heap, base, result, pc>>
    /\ UNCHANGED loadVars /\ UNCHANGED serverVars
    /\ UNCHANGED otherVars

NewOverride ==
    /\ mpc = "override"
    /\ \E p \in OperandPorts, t \in OperandTimeouts,
          oi \in OperandOriginChoices, mi \in OperandMethodChoices,
          l \in BOOLEAN :
          LET c == Operand(heap, p, t, oi, mi, l)
          IN heap' = c.heap /\ override' = c.ret
    /\ mpc' = "merge"
    /\ UNCHANGED <<base, result, pc>>
    /\ UNCHANGED loadVars /\ UNCHANGED serverVars
    /\ UNCHANGED otherVars

\* result := MergeConfigs(base, override)
Merge ==
    /\ mpc = "merge"
    /\ LET r == MergeConfigs(heap, base, override)
       IN heap' = r.heap /\ result' = r.ret
    /\ mpc' = "merged"
    /\ UNCHANGED <<base, override, pc>>
    /\ UNCHANGED loadVars /\ UNCHANGED serverVars
    /\ UNCHANGED otherVars

NextMerge == NewBaseNil \/ NewBase \/ NewOverrideNil \/ NewOverride \/ Merge

SpecMerge == InitMerge /\ [][NextMerge]_vars

(***************************************************************************)
(* File loader: the JSON document and json.Unmarshal into Config           *)
(***************************************************************************)
JNull == [t |-> "null"]
JNum(n) == [t |-> "num", v |-> n]
JStr(x) == [t |-> "str", v |-> x]
JBool(x) == [t |-> "bool", v |-> x]
JArr(xs) == [t |-> "arr", v |-> xs]
JObj(f) == [t |-> "obj", v |-> f]
Malformed == [t |-> "malformed"]

EmptyObj == [k \in {} |-> JNull]

\* an int field: absent or null leaves it, a number sets it, anything else
\* is a type error
DecodeInt(obj, key, cur) ==
    IF key \notin DOMAIN obj \/ obj[key].t = "null"
    THEN [ok |-> TRUE, val |-> cur]
    ELSE IF obj[key].t = "num" THEN [ok |-> TRUE, val |-> obj[key].v]
    ELSE [ok |-> FALSE, val |-> cur]

DecodeBool(obj, key, cur) ==
    IF key \notin DOMAIN obj \/ obj[key].t = "null"
    THEN [ok |-> TRUE, val |-> cur]
    ELSE IF obj[key].t = "bool" THEN [ok |-> TRUE, val |-> obj[key].v]
    ELSE [ok |-> FALSE, val |-> cur]

\* a []string field: an array allocates a slice (empty but non-nil for [])
DecodeStrings(h, obj, key, cur) ==
    IF key \notin DOMAIN obj \/ obj[key].t = "null"
    THEN [ok |-> TRUE, heap |-> h, ret |-> cur]
    ELSE IF obj[key].t = "arr"
    THEN LET a == NewSlice(h, obj[key].v)
         IN [ok |-> TRUE, heap |-> a.heap, ret |-> a.ret]
    ELSE [ok |-> FALSE, heap |-> h, ret |-> cur]

\* the struct fields are looked up under their json tag, and under their Go
\* name where the field carries no tag; other keys of the object are skipped
DecodeServer(h, obj) ==
    LET z == ZeroServerConfig
        port == DecodeInt(obj, "port", z.Port)
        st == DecodeInt(obj, "ShutdownTimeout", z.ShutdownTimeout)
        rt == DecodeInt(obj, "ReadTimeout", z.ReadTimeout)
        wt == DecodeInt(obj, "WriteTimeout", z.WriteTimeout)
        ao == DecodeStrings(h, obj, "allowed_origins", z.AllowedOrigins)
        am == DecodeStrings(ao.heap, obj, "AllowedMethods", z.AllowedMethods)
        el == DecodeBool(obj, "enable_logging", z.EnableLogging)
    IN [err |-> ~(port.ok /\ st.ok /\ rt.ok /\ wt.ok /\ ao.ok /\ am.ok
                  /\ el.ok),
        heap |-> am.heap,
        cfg |-> [Port |-> port.val, ShutdownTimeout |-> st.val,
                 ReadTimeout |-> rt.val, WriteTimeout |-> wt.val,
                 AllowedOrigins |-> ao.ret, AllowedMethods |-> am.ret,
                 EnableLogging |-> el.val]]

\* json.Unmarshal(data, &config)
Unmarshal(h, doc) ==
    IF doc.t # "obj"
    THEN [err |-> TRUE, heap |-> h, cfg |-> ZeroServerConfig]
    ELSE IF "server" \notin DOMAIN doc.v \/ doc.v["server"].t = "null"
    THEN [err |-> FALSE, heap |-> h, cfg |-> ZeroServerConfig]
    ELSE IF doc.v["server"].t # "obj"
    THEN [err |-> TRUE, heap |-> h, cfg |-> ZeroServerConfig]
    ELSE DecodeServer(h, doc.v["server"].v)

\* the struct as far as it was decoded handed out together with the error
LoadConfig_Partial(h, f) ==
    IF ~f.exists THEN [heap |-> h, ret |-> NilPtr, err |-> "NotFound"]
    ELSE IF ~f.readable THEN [heap |-> h, ret |-> NilPtr, err |-> "ReadError"]
    ELSE LET u == Unmarshal(h, f.content)
             c == NewConfig(u.heap, u.cfg)
         IN [heap |-> c.heap, ret |-> c.ret,
             err |-> IF u.err THEN "ParseError" ELSE "nil"]

LoadConfig(h, f) ==
    IF ~f.exists THEN [heap |-> h, ret |-> NilPtr, err |-> "NotFound"]
    ELSE IF ~f.readable THEN [heap |-> h, ret |-> NilPtr, err |-> "ReadError"]
    ELSE LET u == Unmarshal(h, f.content)
         IN IF u.err THEN [heap |-> h, ret |-> NilPtr, err |-> "ParseError"]
            ELSE LET c == NewConfig(u.heap, u.cfg)
                 IN [heap |-> c.heap, ret |-> c.ret, err |-> "nil"]

(***************************************************************************)
(* File writer, and the write-then-read run of TestWriteConfig             *)
(***************************************************************************)
\* a nil slice written as an empty array
MarshalStrings_EmptyForNil(h, a) ==
    IF a = NilPtr THEN JArr(<<>>) ELSE JArr(h.arrs[a])

\* a []string: null for the nil slice, an array otherwise
MarshalStrings(h, a) == IF a = NilPtr THEN JNull ELSE JArr(h.arrs[a])

\* json.MarshalIndent(config, "", "  "): each field under its json tag,
\* or under its Go name where it has none
Marshal(h, p) ==
    LET c == h.cfgs[p]
    IN JObj([server |->
             JObj([port |-> JNum(c.Port),
                   ShutdownTimeout |-> JNum(c.ShutdownTimeout),
                   ReadTimeout |-> JNum(c.ReadTimeout),
                   WriteTimeout |-> JNum(c.WriteTimeout),
                   allowed_origins |-> MarshalStrings(h, c.AllowedOrigins),
                   AllowedMethods |-> MarshalStrings(h, c.AllowedMethods),
                   enable_logging |-> JBool(c.EnableLogging)])])

NoFile ==
    [configPath |-> TRUE, exists |-> FALSE, readable |-> FALSE,
     content |-> JObj(EmptyObj)]

InitWrite ==
    /\ IdleOther
    /\ heap = EmptyHeap
    /\ base = NilPtr /\ override = NilPtr /\ result = NilPtr
    /\ mpc = "config" /\ pc = "test"
    /\ file = NoFile /\ env = "none" /\ procEnv = "none"
    /\ cfg = NilPtr /\ jsonCfg = NilPtr /\ jsonErr = "nil"
    /\ envCfg = NilPtr /\ loadErr = "nil"
    /\ IdleServer

\* testConfig := &Config{...}
NewTestConfig ==
    /\ mpc = "config"
    /\ \E p \in OperandPorts, t \in OperandTimeouts,
          oi \in OperandOriginChoices, mi \in OperandMethodChoices,
          l \in BOOLEAN :
          LET c == Operand(heap, p, t, oi, mi, l)
          IN heap' = c.heap /\ base' = c.ret
    /\ mpc' = "write"
    /\ UNCHANGED <<override, result, pc>>
    /\ UNCHANGED loadVars /\ UNCHANGED serverVars
    /\ UNCHANGED otherVars

\* WriteConfig(path, testConfig): the file holds the marshalled Config, or
\* os.WriteFile fails and the error is returned
WriteConfig ==
    /\ mpc = "write"
    /\ \/ /\ file' = [configPath |-> TRUE, exists |-> TRUE, readable |-> TRUE,
                      content |-> Marshal(heap, base)]
          /\ mpc' = "read"
       \/ /\ mpc' = "writeFailed"
          /\ UNCHANGED file
    /\ UNCHANGED <<heap, base, override, result, pc>>
    /\ UNCHANGED <<env, procEnv, cfg, jsonCfg, jsonErr, envCfg, loadErr>>
    /\ UNCHANGED serverVars
    /\ UNCHANGED otherVars

\* loadedConfig, err := LoadConfig(path)
ReadBack ==
    /\ mpc = "read"
    /\ LET r == LoadConfig(heap, file)
       IN heap' = r.heap /\ result' = r.ret /\ jsonErr' = r.err
    /\ mpc' = "compare"
    /\ UNCHANGED <<base, override, pc>>
    /\ UNCHANGED <<file, env, procEnv, cfg, jsonCfg, envCfg, loadErr>>
    /\ UNCHANGED serverVars
    /\ UNCHANGED otherVars

NextWrite == NewTestConfig \/ WriteConfig \/ ReadBack

SpecWrite == InitWrite /\ [][NextWrite]_vars

(***************************************************************************)
(* Environment loader                                                      *)
(***************************************************************************)
\* the result of Atoi stored without looking at its error
EnvPort_IgnoreErr(vs, cur) ==
    IF "PORT" \in DOMAIN vs /\ vs["PORT"] # <<>>
    THEN Atoi(vs["PORT"]).val
    ELSE cur

\* if portStr, exists := envVars["PORT"]; exists && portStr != "" { Atoi }
EnvPort(vs, cur) ==
    IF "PORT" \in DOMAIN vs /\ vs["PORT"] # <<>> /\ Atoi(vs["PORT"]).ok
    THEN Atoi(vs["PORT"]).val
    ELSE cur

\* ALLOWED_ORIGINS: split on commas, every element trimmed
EnvOrigins(h, vs, cur) ==
    IF "ALLOWED_ORIGINS" \in DOMAIN vs /\ vs["ALLOWED_ORIGINS"] # <<>>
    THEN NewSlice(h, TrimAll(Split(vs["ALLOWED_ORIGINS"])))
    ELSE [heap |-> h, ret |-> cur]

EnvLogging(vs, cur) ==
    IF /\ "ENABLE_LOGGING" \in DOMAIN vs /\ vs["ENABLE_LOGGING"] # <<>>
       /\ ParseBool(vs["ENABLE_LOGGING"]).ok
    THEN ParseBool(vs["ENABLE_LOGGING"]).val
    ELSE cur

\* what a failed godotenv.Read() leads to: the defaults and no error
EnvReadFailed(h, e) ==
    LET d == GetDefaultConfig(h)
    IN [heap |-> d.heap, ret |-> d.ret, err |-> "nil"]

LoadEnvConfig(h, e) ==
    IF e.read # "ok" THEN EnvReadFailed(h, e)
    ELSE LET d == GetDefaultConfig(h)
             c == d.heap.cfgs[d.ret]
             o == EnvOrigins(d.heap, e.vars, c.AllowedOrigins)
             c2 == [c EXCEPT !.Port = EnvPort(e.vars, @),
                             !.AllowedOrigins = o.ret,
                             !.EnableLogging = EnvLogging(e.vars, @)]
         IN [heap |-> [o.heap EXCEPT !.cfgs[d.ret] = c2],
             ret |-> d.ret, err |-> "nil"]

(***************************************************************************)
(* The files and .env contents the pipeline is run on                      *)
(***************************************************************************)
FilePortChoices == 0..3

FilePort(i) ==
    IF i = 0 THEN EmptyObj
    ELSE IF i = 1 THEN [port |-> JNum(0)]
    ELSE IF i = 2 THEN [port |-> JNum(3000)]
    ELSE [port |-> JStr(<<"x">>)]

\* -1: key absent; n >= 0: an array of n origins
FileOriginChoices == (-1)..MaxOrigins

FileOrigins(i) ==
    IF i = -1 THEN EmptyObj ELSE [allowed_origins |-> JArr(OriginPrefix(i))]

FileLoggingChoices == 0..2

FileLogging(i) ==
    IF i = 0 THEN EmptyObj ELSE [enable_logging |-> JBool(i = 1)]

\* 0: none; 1: the keys of the legacy format; 2: keys spelled as the Go fields
FileLegacyChoices == 0..2

FileLegacy(i) ==
    IF i = 0 THEN EmptyObj
    ELSE IF i = 1
    THEN [shutdown_timeout_seconds |-> JNum(45),
          read_timeout_seconds |-> JNum(15),
          write_timeout_seconds |-> JNum(15),
          allowed_methods |-> JArr(<<GET, POST>>)]
    ELSE [ShutdownTimeout |-> JNum(45), ReadTimeout |-> JNum(15),
          WriteTimeout |-> JNum(15), AllowedMethods |-> JArr(<<GET>>)]

ServerFile(pi, oi, li, gi) ==
    [configPath |-> TRUE, exists |-> TRUE, readable |-> TRUE,
     content |-> JObj([server |-> JObj(FilePort(pi) @@ FileOrigins(oi)
                                       @@ FileLogging(li) @@ FileLegacy(gi))])]

\* 0: CONFIG_PATH unset; 1: no such file; 2: unreadable; 3: not JSON;
\* 4: {}; 5: "server" is not an object; 6: CONFIG_PATH unset and a
\* config.json with port 3000 in the application root; 7: CONFIG_PATH unset
\* and no config.json
OtherFileChoices == 0..7

OtherFile(i) ==
    [configPath |-> i \notin {0, 6, 7}, exists |-> i \notin {1, 7},
     readable |-> i # 2,
     content |-> IF i = 3 THEN Malformed
                 ELSE IF i = 5 THEN JObj([server |-> JNum(1)])
                 ELSE IF i = 6 THEN JObj([server |-> JObj([port |-> JNum(3000)])])
                 ELSE JObj(EmptyObj)]

EnvPortChoices == 0..4

EnvPortVar(i) ==
    IF i = 0 THEN EmptyObj
    ELSE IF i = 1 THEN [PORT |-> <<>>]
    ELSE IF i = 2 THEN [PORT |-> <<"4", "0", "0", "0">>]
    ELSE IF i = 3 THEN [PORT |-> <<"0">>]
    ELSE [PORT |-> <<"x", "1">>]

\* elements with an even index carry surrounding blanks
Padded(i) ==
    IF i % 2 = 0 THEN <<" ">> \o OriginN(i) \o <<" ">> ELSE OriginN(i)

RECURSIVE JoinPadded(_)
JoinPadded(n) ==
    IF n = 1 THEN Padded(1) ELSE JoinPadded(n - 1) \o <<",">> \o Padded(n)

\* -2: key absent; -1: empty value; 0: a lone comma; n >= 1: n elements
EnvOriginChoices == (-2)..MaxOrigins

EnvOriginsVar(i) ==
    IF i = -2 THEN EmptyObj
    ELSE IF i = -1 THEN [ALLOWED_ORIGINS |-> <<>>]
    ELSE IF i = 0 THEN [ALLOWED_ORIGINS |-> <<",">>]
    ELSE [ALLOWED_ORIGINS |-> JoinPadded(i)]

EnvLoggingChoices == 0..4

EnvLoggingVar(i) ==
    IF i = 0 THEN EmptyObj
    ELSE IF i = 1 THEN [ENABLE_LOGGING |-> <<>>]
    ELSE IF i = 2 THEN [ENABLE_LOGGING |-> <<"f", "a", "l", "s", "e">>]
    ELSE IF i = 3 THEN [ENABLE_LOGGING |-> <<"t", "r", "u", "e">>]
    ELSE [ENABLE_LOGGING |-> <<"y", "e", "s">>]

EnvLegacyChoices == 0..1

EnvLegacyVar(i) ==
    IF i = 0 THEN EmptyObj
    ELSE [SHUTDOWN_TIMEOUT |-> <<"6", "0">>, READ_TIMEOUT |-> <<"2", "0">>,
          WRITE_TIMEOUT |-> <<"2", "0">>, ALLOWED_METHODS |-> GET]

EnvFile(pi, oi, li, gi) ==
    [read |-> "ok",
     vars |-> EnvPortVar(pi) @@ EnvOriginsVar(oi) @@ EnvLoggingVar(li)
              @@ EnvLegacyVar(gi)]

\* the variables of the process environment: none, or the three keys
ProcEnvChoices == 0..1

ProcEnv(i) ==
    IF i = 0 THEN EmptyObj
    ELSE [PORT |-> <<"5", "0", "0", "0">>,
          ALLOWED_ORIGINS |-> OriginN(9),
          ENABLE_LOGGING |-> <<"f", "a", "l", "s", "e">>]

NoEnvFile == [read |-> "missing", vars |-> EmptyObj]

BadEnvFile == [read |-> "error", vars |-> EmptyObj]

(***************************************************************************)
(* loadConfiguration                                                       *)
(***************************************************************************)
\* main before its first statement
LoadStart ==
    /\ IdleOther
    /\ heap = EmptyHeap
    /\ base = NilPtr /\ override = NilPtr /\ result = NilPtr /\ mpc = "idle"
    /\ cfg = NilPtr /\ jsonCfg = NilPtr /\ jsonErr = "nil"
    /\ envCfg = NilPtr /\ loadErr = "nil"
    /\ pc = "getDefault"
    /\ IdleServer

InitLoad ==
    /\ LoadStart
    /\ \/ \E pi \in FilePortChoices, oi \in FileOriginChoices,
             li \in FileLoggingChoices, gi \in FileLegacyChoices :
             file = ServerFile(pi, oi, li, gi)
       \/ \E i \in OtherFileChoices : file = OtherFile(i)
    /\ \/ \E pi \in EnvPortChoices, oi \in EnvOriginChoices,
             li \in EnvLoggingChoices, gi \in EnvLegacyChoices :
             env = EnvFile(pi, oi, li, gi)
       \/ env = NoEnvFile
       \/ env = BadEnvFile
    /\ \E i \in ProcEnvChoices : procEnv = ProcEnv(i)

\* cfg := config.GetDefaultConfig()
LoadDefaults ==
    /\ pc = "getDefault"
    /\ LET d == GetDefaultConfig(heap)
       IN heap' = d.heap /\ cfg' = d.ret
    /\ pc' = "loadFile"
    /\ UNCHANGED <<file, env, procEnv, jsonCfg, jsonErr, envCfg, loadErr>>
    /\ UNCHANGED mergeVars /\ UNCHANGED serverVars
    /\ UNCHANGED otherVars

\* a failed load of the file treated as fatal
LoadFile_Abort ==
    /\ pc = "loadFile"
    /\ IF ~file.configPath
       THEN /\ pc' = "loadEnv"
            /\ UNCHANGED <<heap, cfg, jsonCfg, jsonErr, loadErr, exitCode>>
       ELSE LET r == LoadConfig(heap, file)
            IN /\ jsonErr' = r.err
               /\ IF r.err = "nil"
                  THEN LET m == MergeConfigs(r.heap, cfg, r.ret)
                       IN /\ heap' = m.heap /\ cfg' = m.ret
                          /\ jsonCfg' = r.ret /\ pc' = "loadEnv"
                          /\ UNCHANGED <<loadErr, exitCode>>
                  ELSE /\ loadErr' = r.err /\ pc' = "exit" /\ exitCode' = 1
                       /\ UNCHANGED <<heap, cfg, jsonCfg>>
    /\ UNCHANGED <<file, env, procEnv, envCfg, logs>>
    /\ UNCHANGED mergeVars
    /\ UNCHANGED otherVars
    /\ UNCHANGED srvCore

\* the CONFIG_PATH block: load and merge, or warn and keep cfg
LoadFile ==
    /\ pc = "loadFile"
    /\ IF ~file.configPath
       THEN UNCHANGED <<heap, cfg, jsonCfg, jsonErr, logs>>
       ELSE LET r == LoadConfig(heap, file)
            IN /\ jsonErr' = r.err
               /\ IF r.err = "nil"
                  THEN LET m == MergeConfigs(r.heap, cfg, r.ret)
                       IN /\ heap' = m.heap /\ cfg' = m.ret
                          /\ jsonCfg' = r.ret
                          /\ UNCHANGED logs
                  ELSE /\ logs' = logs
                                  \cup {"Warning: Failed to load JSON config"}
                       /\ UNCHANGED <<heap, cfg, jsonCfg>>
    /\ pc' = "loadEnv"
    /\ UNCHANGED <<file, env, procEnv, envCfg, loadErr>>
    /\ UNCHANGED mergeVars
    /\ UNCHANGED otherVars
    /\ UNCHANGED <<srvCore, exitCode>>

\* envCfg, err := config.LoadEnvConfig(); an error aborts main
LoadEnv ==
    /\ pc = "loadEnv"
    /\ LET r == LoadEnvConfig(heap, env)
       IN IF r.err # "nil"
          THEN /\ loadErr' = r.err /\ pc' = "exit" /\ exitCode' = 1
               /\ UNCHANGED <<heap, envCfg>>
          ELSE /\ heap' = r.heap /\ envCfg' = r.ret /\ pc' = "mergeEnv"
               /\ UNCHANGED <<loadErr, exitCode>>
    /\ UNCHANGED <<file, env, procEnv, cfg, jsonCfg, jsonErr>>
    /\ UNCHANGED mergeVars
    /\ UNCHANGED otherVars
    /\ UNCHANGED <<srvCore, logs>>

\* cfg = config.MergeConfigs(cfg, envCfg); return cfg, nil
MergeEnv ==
    /\ pc = "mergeEnv"
    /\ LET m == MergeConfigs(heap, cfg, envCfg)
       IN heap' = m.heap /\ cfg' = m.ret
    /\ pc' = "loaded"
    /\ UNCHANGED <<file, env, procEnv, jsonCfg, jsonErr, envCfg, loadErr>>
    /\ UNCHANGED mergeVars /\ UNCHANGED serverVars
    /\ UNCHANGED otherVars

NextLoad == LoadDefaults \/ LoadFile \/ LoadEnv \/ MergeEnv

SpecLoad == InitLoad /\ [][NextLoad]_vars

(***************************************************************************)
(* main after configuration resolution: the server and its shutdown        *)
(***************************************************************************)
IdleTimeout == 60

Running == exitCode = NoExit

\* signal.Notify has run and the process is alive
Notified ==
    pc \in {"spawn", "select", "shutdown", "shutdownPoll", "shutdownWait",
            "return"}

\* server := createServer(cfg, httpHandler)
CreateServer ==
    /\ Running /\ pc = "loaded"
    /\ server' = [Addr |-> Val(heap, cfg).Port,
                  ReadTimeout |-> Val(heap, cfg).ReadTimeout,
                  WriteTimeout |-> Val(heap, cfg).WriteTimeout,
                  IdleTimeout |-> IdleTimeout]
    /\ pc' = "notify"
    /\ UNCHANGED <<heap, gpc, listener, bindOutcome, inShutdown, sigChan,
                   serverErr, active, accepted, ctxDone, shutdownCalls, inFlightAtDrain,
                   retErr, exitCode, logs>>
    /\ UNCHANGED mergeVars /\ UNCHANGED loadVars
    /\ UNCHANGED otherVars

\* sigChan := make(chan os.Signal, 1); signal.Notify(sigChan, SIGINT, SIGTERM)
Notify ==
    /\ Running /\ pc = "notify"
    /\ sigChan' = 0
    /\ pc' = "spawn"
    /\ UNCHANGED <<heap, gpc, server, listener, bindOutcome, inShutdown,
                   serverErr, active, accepted, ctxDone, shutdownCalls, inFlightAtDrain,
                   retErr, exitCode, logs>>
    /\ UNCHANGED mergeVars /\ UNCHANGED loadVars
    /\ UNCHANGED otherVars

\* serverErr := make(chan error, 1); go func() { ... }()
Spawn ==
    /\ Running /\ pc = "spawn"
    /\ serverErr' = 0 /\ gpc' = "start"
    /\ pc' = "select"
    /\ UNCHANGED <<heap, server, listener, bindOutcome, inShutdown, sigChan,
                   active, accepted, ctxDone, shutdownCalls, inFlightAtDrain, retErr,
                   exitCode, logs>>
    /\ UNCHANGED mergeVars /\ UNCHANGED loadVars
    /\ UNCHANGED otherVars

\* the host delivers SIGINT or SIGTERM; a signal is dropped when the
\* one-slot channel is already full
OSSignal ==
    /\ Running /\ Notified
    /\ sigChan = 0
    /\ sigChan' = 1
    /\ UNCHANGED <<heap, pc, gpc, server, listener, bindOutcome, inShutdown,
                   serverErr, active, accepted, ctxDone, shutdownCalls, inFlightAtDrain,
                   retErr, exitCode, logs>>
    /\ UNCHANGED mergeVars /\ UNCHANGED loadVars
    /\ UNCHANGED otherVars

\* ListenAndServe up to net.Listen: ErrServerClosed when Shutdown was already
\* called, otherwise the bind succeeds or fails
GListen ==
    /\ Running /\ gpc = "start"
    /\ IF inShutdown
       THEN gpc' = "done" /\ UNCHANGED <<listener, bindOutcome>>
       ELSE \/ /\ bindOutcome' = "ok" /\ listener' = "open"
               /\ gpc' = "serve"
            \/ /\ bindOutcome' = "failed" /\ gpc' = "send"
               /\ UNCHANGED listener
    /\ logs' = logs \cup {"Starting HTTP server"}
    /\ UNCHANGED <<heap, pc, server, inShutdown, sigChan, serverErr, active,
                   accepted, ctxDone, shutdownCalls, inFlightAtDrain, retErr, exitCode>>
    /\ UNCHANGED mergeVars /\ UNCHANGED loadVars
    /\ UNCHANGED otherVars

\* Serve registers the listener, or closes it when Shutdown came first
GServe ==
    /\ Running /\ gpc = "serve"
    /\ IF inShutdown
       THEN listener' = "closed" /\ gpc' = "done"
       ELSE gpc' = "accepting" /\ UNCHANGED listener
    /\ UNCHANGED <<heap, pc, server, bindOutcome, inShutdown, sigChan,
                   serverErr, active, accepted, ctxDone, shutdownCalls, inFlightAtDrain,
                   retErr, exitCode, logs>>
    /\ UNCHANGED mergeVars /\ UNCHANGED loadVars
    /\ UNCHANGED otherVars

\* the accept loop takes a connection and serves it on its own goroutine
GAccept ==
    /\ Running /\ gpc = "accepting" /\ listener = "open"
    /\ accepted < MaxConns
    /\ accepted' = accepted + 1 /\ active' = active + 1
    /\ UNCHANGED <<heap, pc, gpc, server, listener, bindOutcome, inShutdown,
                   sigChan, serverErr, ctxDone, shutdownCalls, inFlightAtDrain, retErr,
                   exitCode, logs>>
    /\ UNCHANGED mergeVars /\ UNCHANGED loadVars
    /\ UNCHANGED otherVars

\* Accept fails for good while the server is not shutting down
GAcceptFatal ==
    /\ Running /\ gpc = "accepting" /\ listener = "open" /\ ~inShutdown
    /\ listener' = "closed" /\ gpc' = "send"
    /\ UNCHANGED <<heap, pc, server, bindOutcome, inShutdown, sigChan,
                   serverErr, active, accepted, ctxDone, shutdownCalls, inFlightAtDrain,
                   retErr, exitCode, logs>>
    /\ UNCHANGED mergeVars /\ UNCHANGED loadVars
    /\ UNCHANGED otherVars

\* Accept on the listener Shutdown closed: http.ErrServerClosed, nothing sent
GServerClosed ==
    /\ Running /\ gpc = "accepting" /\ inShutdown
    /\ gpc' = "done"
    /\ UNCHANGED <<heap, pc, server, listener, bindOutcome, inShutdown,
                   sigChan, serverErr, active, accepted, ctxDone,
                   shutdownCalls, inFlightAtDrain, retErr, exitCode, logs>>
    /\ UNCHANGED mergeVars /\ UNCHANGED loadVars
    /\ UNCHANGED otherVars

\* the send on a channel without buffer: it needs the controller at its select
GSendErr_Unbuffered ==
    /\ Running /\ gpc = "send"
    /\ serverErr < 1 /\ pc = "select"
    /\ serverErr' = serverErr + 1 /\ gpc' = "done"
    /\ UNCHANGED <<heap, pc, server, listener, bindOutcome, inShutdown,
                   sigChan, active, accepted, ctxDone, shutdownCalls,
                   inFlightAtDrain, retErr, exitCode, logs>>
    /\ UNCHANGED mergeVars /\ UNCHANGED loadVars
    /\ UNCHANGED otherVars

\* serverErr <- fmt.Errorf("server failed to start: %w", err)
GSendErr ==
    /\ Running /\ gpc = "send"
    /\ serverErr < 1
    /\ serverErr' = serverErr + 1 /\ gpc' = "done"
    /\ UNCHANGED <<heap, pc, server, listener, bindOutcome, inShutdown,
                   sigChan, active, accepted, ctxDone, shutdownCalls, inFlightAtDrain, retErr,
                   exitCode, logs>>
    /\ UNCHANGED mergeVars /\ UNCHANGED loadVars
    /\ UNCHANGED otherVars

\* a handler returns
RequestDone ==
    /\ Running /\ active > 0
    /\ active' = active - 1
    /\ UNCHANGED <<heap, pc, gpc, server, listener, bindOutcome, inShutdown,
                   sigChan, serverErr, accepted, ctxDone, shutdownCalls, inFlightAtDrain,
                   retErr, exitCode, logs>>
    /\ UNCHANGED mergeVars /\ UNCHANGED loadVars
    /\ UNCHANGED otherVars

\* the error path made to run the drain sequence as well
SelectErr_Drains ==
    /\ Running /\ pc = "select" /\ serverErr > 0
    /\ serverErr' = serverErr - 1
    /\ retErr' = "serverErr" /\ pc' = "shutdown"
    /\ UNCHANGED <<heap, gpc, server, listener, bindOutcome, inShutdown,
                   sigChan, active, accepted, ctxDone, shutdownCalls,
                   inFlightAtDrain, exitCode, logs>>
    /\ UNCHANGED mergeVars /\ UNCHANGED loadVars
    /\ UNCHANGED otherVars

\* case err := <-serverErr: return err
SelectErr ==
    /\ Running /\ pc = "select" /\ serverErr > 0
    /\ serverErr' = serverErr - 1
    /\ retErr' = "serverErr" /\ pc' = "return"
    /\ UNCHANGED <<heap, gpc, server, listener, bindOutcome, inShutdown,
                   sigChan, active, accepted, ctxDone, shutdownCalls, inFlightAtDrain,
                   exitCode, logs>>
    /\ UNCHANGED mergeVars /\ UNCHANGED loadVars
    /\ UNCHANGED otherVars

\* case sig := <-sigChan: log, context.WithTimeout(ShutdownTimeout seconds)
SelectSig ==
    /\ Running /\ pc = "select" /\ sigChan > 0
    /\ sigChan' = sigChan - 1
    /\ logs' = logs \cup {"Received signal"}
    /\ ctxDone' = (Val(heap, cfg).ShutdownTimeout <= 0)
    /\ pc' = "shutdown"
    /\ UNCHANGED <<heap, gpc, server, listener, bindOutcome, inShutdown,
                   serverErr, active, accepted, shutdownCalls, inFlightAtDrain, retErr,
                   exitCode>>
    /\ UNCHANGED mergeVars /\ UNCHANGED loadVars
    /\ UNCHANGED otherVars

\* the shutdown context reaches its deadline
CtxDeadline ==
    /\ Running /\ pc \in {"shutdown", "shutdownPoll", "shutdownWait"}
    /\ ~ctxDone
    /\ ctxDone' = TRUE
    /\ UNCHANGED <<heap, pc, gpc, server, listener, bindOutcome, inShutdown,
                   sigChan, serverErr, active, accepted, shutdownCalls, inFlightAtDrain,
                   retErr, exitCode, logs>>
    /\ UNCHANGED mergeVars /\ UNCHANGED loadVars
    /\ UNCHANGED otherVars

\* Shutdown that leaves the listener open
ShutdownBegin_ListenerOpen ==
    /\ Running /\ pc = "shutdown"
    /\ shutdownCalls' = shutdownCalls + 1
    /\ inFlightAtDrain' = active
    /\ pc' = "shutdownPoll"
    /\ UNCHANGED <<heap, gpc, server, listener, bindOutcome, inShutdown,
                   sigChan, serverErr, active, accepted, ctxDone, retErr,
                   exitCode, logs>>
    /\ UNCHANGED mergeVars /\ UNCHANGED loadVars
    /\ UNCHANGED otherVars

\* server.Shutdown(ctx) entry: inShutdown is set and the listeners are closed
ShutdownBegin ==
    /\ Running /\ pc = "shutdown"
    /\ inShutdown' = TRUE
    /\ listener' = IF listener = "open" THEN "closed" ELSE listener
    /\ shutdownCalls' = shutdownCalls + 1
    /\ inFlightAtDrain' = active
    /\ pc' = "shutdownPoll"
    /\ UNCHANGED <<heap, gpc, server, bindOutcome, sigChan, serverErr, active,
                   accepted, ctxDone, retErr, exitCode, logs>>
    /\ UNCHANGED mergeVars /\ UNCHANGED loadVars
    /\ UNCHANGED otherVars

\* Shutdown that returns nil only once the deadline has passed
ShutdownPoll_WaitsDeadline ==
    /\ Running /\ pc = "shutdownPoll"
    /\ IF active = 0 /\ ctxDone
       THEN /\ retErr' = "nil" /\ pc' = "return"
            /\ logs' = logs \cup {"Server shutdown completed successfully"}
       ELSE /\ pc' = "shutdownWait" /\ UNCHANGED <<retErr, logs>>
    /\ UNCHANGED <<heap, gpc, server, listener, bindOutcome, inShutdown,
                   sigChan, serverErr, active, accepted, ctxDone,
                   shutdownCalls, inFlightAtDrain, exitCode>>
    /\ UNCHANGED mergeVars /\ UNCHANGED loadVars
    /\ UNCHANGED otherVars

\* Shutdown's loop: return nil as soon as no connection is busy
ShutdownPoll ==
    /\ Running /\ pc = "shutdownPoll"
    /\ IF active = 0
       THEN /\ retErr' = "nil" /\ pc' = "return"
            /\ logs' = logs \cup {"Server shutdown completed successfully"}
       ELSE /\ pc' = "shutdownWait" /\ UNCHANGED <<retErr, logs>>
    /\ UNCHANGED <<heap, gpc, server, listener, bindOutcome, inShutdown,
                   sigChan, serverErr, active, accepted, ctxDone,
                   shutdownCalls, inFlightAtDrain, exitCode>>
    /\ UNCHANGED mergeVars /\ UNCHANGED loadVars
    /\ UNCHANGED otherVars

\* Shutdown's loop: the poll timer fires
ShutdownTick ==
    /\ Running /\ pc = "shutdownWait"
    /\ pc' = "shutdownPoll"
    /\ UNCHANGED serverVars
    /\ UNCHANGED heap /\ UNCHANGED mergeVars /\ UNCHANGED loadVars
    /\ UNCHANGED otherVars

\* a drain that ignores its context and keeps polling
ShutdownDeadline_Ignored ==
    /\ Running /\ pc = "shutdownWait" /\ ctxDone
    /\ pc' = "shutdownPoll"
    /\ UNCHANGED serverVars
    /\ UNCHANGED heap /\ UNCHANGED mergeVars /\ UNCHANGED loadVars
    /\ UNCHANGED otherVars

\* Shutdown's loop: <-ctx.Done(); Shutdown returns ctx.Err() and the
\* controller returns "graceful shutdown failed"
ShutdownDeadline ==
    /\ Running /\ pc = "shutdownWait" /\ ctxDone
    /\ retErr' = "shutdownErr" /\ pc' = "return"
    /\ logs' = logs \cup {"Graceful shutdown failed"}
    /\ UNCHANGED <<heap, gpc, server, listener, bindOutcome, inShutdown,
                   sigChan, serverErr, active, accepted, ctxDone,
                   shutdownCalls, inFlightAtDrain, exitCode>>
    /\ UNCHANGED mergeVars /\ UNCHANGED loadVars
    /\ UNCHANGED otherVars

\* main: log.Fatalf on an error (exit status 1), otherwise return (status 0)
MainReturn ==
    /\ Running /\ pc = "return"
    /\ IF retErr = "nil"
       THEN exitCode' = 0 /\ UNCHANGED logs
       ELSE exitCode' = 1 /\ logs' = logs \cup {"Server failed"}
    /\ pc' = "exit"
    /\ UNCHANGED heap /\ UNCHANGED srvCore
    /\ UNCHANGED mergeVars /\ UNCHANGED loadVars
    /\ UNCHANGED otherVars

NextServer ==
    \/ CreateServer \/ Notify \/ Spawn \/ OSSignal
    \/ GListen \/ GServe \/ GAccept \/ GAcceptFatal \/ GServerClosed
    \/ GSendErr \/ RequestDone
    \/ SelectErr \/ SelectSig \/ CtxDeadline
    \/ ShutdownBegin \/ ShutdownPoll \/ ShutdownTick \/ ShutdownDeadline
    \/ MainReturn

\* the process run on a few configurations
InitMain ==
    /\ LoadStart
    /\ \/ \E i \in 0..3 : file = OtherFile(i)
       \/ file = ServerFile(2, 1, 2, 2)
    /\ env \in {NoEnvFile, EnvFile(2, 2, 2, 1)}
    /\ procEnv = ProcEnv(0)

Next == NextLoad \/ NextServer

Spec == InitMain /\ [][Next]_vars

\* the steps of the main goroutine
Controller ==
    \/ LoadDefaults \/ LoadFile \/ LoadEnv \/ MergeEnv
    \/ CreateServer \/ Notify \/ Spawn \/ SelectErr \/ SelectSig
    \/ ShutdownBegin \/ ShutdownPoll \/ ShutdownTick \/ ShutdownDeadline
    \/ MainReturn

\* the steps of the server goroutine that need no outside event
Goroutine == GListen \/ GServe \/ GServerClosed \/ GSendErr

\* both goroutines keep being scheduled, the runtime timer of the shutdown
\* context fires, and a select that keeps finding ctx.Done() ready
\* eventually takes it
FairSpec ==
    /\ Spec
    /\ WF_vars(Controller) /\ WF_vars(Goroutine)
    /\ WF_vars(CtxDeadline) /\ SF_vars(ShutdownDeadline)

(***************************************************************************)
(* Middleware chain, routes and the handling of one request                *)
(***************************************************************************)
\* A handler is a record: the final handler of the chain test, the route
\* handler, or a wrapper holding the handler it calls next.
FinalHandler == [kind |-> "final"]

RouteHandler == [kind |-> "route"]

\* the middleware of TestChainOrder that records "m<id>-before/-after"
TestMiddleware(id) == [kind |-> "mw", id |-> id]

\* middleware.Logger(enabled)
Logger(enabled) == [kind |-> "logger", enabled |-> enabled]

\* m(next): the handler a middleware returns for next
Apply(m, next) ==
    IF m.kind = "mw" THEN [kind |-> "mw", id |-> m.id, next |-> next]
    ELSE [kind |-> "logger", enabled |-> m.enabled, next |-> next]

\* for i := len(middlewares) - 1; i >= 0; i-- { final = middlewares[i](final) }
RECURSIVE ChainFrom(_, _, _)
ChainFrom(ms, i, final) ==
    IF i < 1 THEN final ELSE ChainFrom(ms, i - 1, Apply(ms[i], final))

Reverse(xs) == [i \in 1..Len(xs) |-> xs[Len(xs) + 1 - i]]

\* the loop run over the list back to front, the last middleware outermost
Chain_LastOutermost(ms, final) == ChainFrom(Reverse(ms), Len(ms), final)

\* Chain(middlewares...)(final)
Chain(ms, final) == ChainFrom(ms, Len(ms), final)

\* cors.New(Options{AllowedOrigins, AllowedMethods, ...}).Handler(next)
CorsHandler(origins, methods, next) ==
    [kind |-> "cors", origins |-> origins, methods |-> methods, next |-> next]

MiddlewareIds == 1..3

MiddlewareLists ==
    UNION {[1..n -> {TestMiddleware(id) : id \in MiddlewareIds}] :
               n \in 0..MaxChain}

RequestMethods == {GET, POST, OPTIONS}

RequestPaths == {"/", "/health", "/health/", "/nonexistent"}

\* preflight: the request carries Access-Control-Request-Method
Request(method, path, preflight) ==
    [method |-> method, path |-> path, preflight |-> preflight]

NoResponse == [status |-> 0, contentType |-> "", body |-> ""]

\* writeJSONResponse(w, statusCode, Response{Status: status, ...})
JSONResponse(statusCode, status) ==
    [status |-> statusCode, contentType |-> "application/json",
     body |-> status]

Frame(h) == [h |-> h, at |-> "enter"]

Top == stack[Len(stack)]

Pop == SubSeq(stack, 1, Len(stack) - 1)

InitHTTP ==
    /\ heap = EmptyHeap
    /\ base = NilPtr /\ override = NilPtr /\ result = NilPtr
    /\ mpc = "new" /\ pc = "test"
    /\ IdleLoad /\ IdleServer
    /\ third = NilPtr /\ left = NilPtr /\ right = NilPtr
    /\ middlewares = <<>> /\ chained = <<>> /\ stack = <<>>
    /\ executionOrder = <<>>
    /\ req = Request(GET, "/test", FALSE) /\ resp = NoResponse

\* chained := Chain(m1, ..., mn)(finalHandler); chained.ServeHTTP(w, req)
ChainTest ==
    /\ mpc = "new"
    /\ \E ms \in MiddlewareLists :
          /\ middlewares' = ms
          /\ chained' = Chain(ms, FinalHandler)
    /\ stack' = <<Frame(chained')>>
    /\ mpc' = "serving"
    /\ UNCHANGED <<heap, base, override, result, pc, executionOrder, req, resp>>
    /\ UNCHANGED loadVars /\ UNCHANGED serverVars /\ UNCHANGED assocVars

\* finalHandler := router.SetupRoutes(cfg); finalHandler.ServeHTTP(w, req)
SetupRoutes ==
    /\ mpc = "new"
    /\ \E oi \in OperandOriginChoices, l \in BOOLEAN :
          LET c == Operand(heap, DefaultPort,
                           <<DefaultShutdownTimeout, DefaultReadTimeout,
                             DefaultWriteTimeout>>, oi, 2, l)
              v == Val(c.heap, c.ret)
          IN /\ heap' = c.heap /\ cfg' = c.ret
             /\ middlewares' = <<Logger(v.EnableLogging)>>
             /\ chained' = CorsHandler(v.AllowedOrigins, v.AllowedMethods,
                                       Chain(middlewares', RouteHandler))
    /\ \E m \in RequestMethods, p \in RequestPaths, pf \in BOOLEAN :
          req' = Request(m, p, pf)
    /\ stack' = <<Frame(chained')>>
    /\ mpc' = "serving"
    /\ UNCHANGED <<base, override, result, pc, executionOrder, resp>>
    /\ UNCHANGED <<file, env, procEnv, jsonCfg, jsonErr, envCfg, loadErr>>
    /\ UNCHANGED serverVars /\ UNCHANGED assocVars

\* a test middleware up to its call of next.ServeHTTP
MiddlewareBefore ==
    /\ mpc = "serving" /\ stack # <<>>
    /\ Top.h.kind = "mw" /\ Top.at = "enter"
    /\ executionOrder' = Append(executionOrder, <<Top.h.id, "before">>)
    /\ stack' = Pop \o <<[h |-> Top.h, at |-> "called"], Frame(Top.h.next)>>
    /\ UNCHANGED <<heap, base, override, result, mpc, pc>>
    /\ UNCHANGED <<middlewares, chained, req, resp>>
    /\ UNCHANGED loadVars /\ UNCHANGED serverVars /\ UNCHANGED assocVars

\* a test middleware after next.ServeHTTP has returned
MiddlewareAfter ==
    /\ mpc = "serving" /\ stack # <<>>
    /\ Top.h.kind = "mw" /\ Top.at = "called"
    /\ executionOrder' = Append(executionOrder, <<Top.h.id, "after">>)
    /\ stack' = Pop
    /\ UNCHANGED <<heap, base, override, result, mpc, pc>>
    /\ UNCHANGED <<middlewares, chained, req, resp>>
    /\ UNCHANGED loadVars /\ UNCHANGED serverVars /\ UNCHANGED assocVars

\* the final handler of the chain test
ServeFinal ==
    /\ mpc = "serving" /\ stack # <<>>
    /\ Top.h.kind = "final"
    /\ executionOrder' = Append(executionOrder, <<0, "final">>)
    /\ stack' = Pop
    /\ UNCHANGED <<heap, base, override, result, mpc, pc>>
    /\ UNCHANGED <<middlewares, chained, req, resp>>
    /\ UNCHANGED loadVars /\ UNCHANGED serverVars /\ UNCHANGED assocVars

\* rs/cors: a preflight request (OPTIONS with Access-Control-Request-Method)
\* is answered by the library itself, with 204 or 200 depending on its
\* version, no body and no handler call; any other request goes to next
ServeCors ==
    /\ mpc = "serving" /\ stack # <<>>
    /\ Top.h.kind = "cors"
    /\ IF req.method = OPTIONS /\ req.preflight
       THEN /\ \E st \in {200, 204} :
                  resp' = [status |-> st, contentType |-> "", body |-> ""]
            /\ stack' = Pop
       ELSE /\ stack' = Pop \o <<Frame(Top.h.next)>>
            /\ UNCHANGED resp
    /\ UNCHANGED <<heap, base, override, result, mpc, pc>>
    /\ UNCHANGED <<middlewares, chained, executionOrder, req>>
    /\ UNCHANGED loadVars /\ UNCHANGED serverVars /\ UNCHANGED assocVars

\* the handler Logger returns: log the request if enabled, then next
ServeLogger ==
    /\ mpc = "serving" /\ stack # <<>>
    /\ Top.h.kind = "logger"
    /\ logs' = IF Top.h.enabled THEN logs \cup {"[time] method path"}
               ELSE logs
    /\ stack' = Pop \o <<Frame(Top.h.next)>>
    /\ UNCHANGED <<heap, base, override, result, mpc, pc>>
    /\ UNCHANGED <<middlewares, chained, executionOrder, req, resp>>
    /\ UNCHANGED loadVars /\ UNCHANGED <<srvCore, exitCode>>
    /\ UNCHANGED assocVars

\* routeHandler: "/" is Home, "/health" is Health, the rest is NotFound;
\* the method is not looked at
ServeRoute ==
    /\ mpc = "serving" /\ stack # <<>>
    /\ Top.h.kind = "route"
    /\ resp' = IF req.path = "/" THEN JSONResponse(200, "success")
               ELSE IF req.path = "/health" THEN JSONResponse(200, "healthy")
               ELSE JSONResponse(404, "error")
    /\ stack' = Pop
    /\ UNCHANGED <<heap, base, override, result, mpc, pc>>
    /\ UNCHANGED <<middlewares, chained, executionOrder, req>>
    /\ UNCHANGED loadVars /\ UNCHANGED serverVars /\ UNCHANGED assocVars

\* ServeHTTP of the outermost handler has returned
Served ==
    /\ mpc = "serving" /\ stack = <<>>
    /\ mpc' = "served"
    /\ UNCHANGED <<heap, base, override, result, pc>>
    /\ UNCHANGED httpVars
    /\ UNCHANGED loadVars /\ UNCHANGED serverVars /\ UNCHANGED assocVars

NextHTTP ==
    \/ ChainTest \/ SetupRoutes
    \/ MiddlewareBefore \/ MiddlewareAfter \/ ServeFinal
    \/ ServeCors \/ ServeLogger \/ ServeRoute \/ Served

SpecHTTP == InitHTTP /\ [][NextHTTP]_vars

(***************************************************************************)
(* The merger applied twice to three operands, under both groupings        *)
(***************************************************************************)
AssocMethods == <<GET, POST, PUT>>

\* the k-th operand: every field either unset (0, nil or empty) or a value
\* that only this operand has
AssocOperand(h, k, hasPort, oi, hasHardcoded, l) ==
    LET o == IF oi = -1 THEN [heap |-> h, ret |-> NilPtr]
             ELSE IF oi = 0 THEN NewSlice(h, <<>>)
             ELSE NewSlice(h, <<OriginN(k)>>)
        m == IF hasHardcoded THEN NewSlice(o.heap, <<AssocMethods[k]>>)
             ELSE [heap |-> o.heap, ret |-> NilPtr]
        t == IF hasHardcoded THEN 10 * k ELSE 0
    IN NewConfig(m.heap,
                 [Port |-> IF hasPort THEN 1000 * k ELSE 0,
                  ShutdownTimeout |-> t,
                  ReadTimeout |-> IF hasHardcoded THEN t + 1 ELSE 0,
                  WriteTimeout |-> IF hasHardcoded THEN t + 2 ELSE 0,
                  AllowedOrigins |-> o.ret,
                  AllowedMethods |-> m.ret, EnableLogging |-> l])

AssocOperands(h, k) ==
    {AssocOperand(h, k, hp, oi, hh, l) :
         hp \in BOOLEAN, oi \in (-1)..1, hh \in BOOLEAN, l \in BOOLEAN}

InitAssoc ==
    /\ heap = EmptyHeap
    /\ base = NilPtr /\ override = NilPtr /\ result = NilPtr
    /\ mpc = "operands" /\ pc = "test"
    /\ IdleLoad /\ IdleServer /\ IdleOther

\* three non-nil Configs a, b, c
NewOperands ==
    /\ mpc = "operands"
    /\ \E a \in AssocOperands(heap, 1) :
          \E b \in AssocOperands(a.heap, 2) :
             \E c \in AssocOperands(b.heap, 3) :
                /\ heap' = c.heap
                /\ base' = a.ret /\ override' = b.ret /\ third' = c.ret
    /\ mpc' = "left"
    /\ UNCHANGED <<result, pc, left, right>>
    /\ UNCHANGED loadVars /\ UNCHANGED serverVars /\ UNCHANGED httpVars

\* left := MergeConfigs(MergeConfigs(a, b), c)
MergeLeft ==
    /\ mpc = "left"
    /\ LET ab == MergeConfigs(heap, base, override)
           r == MergeConfigs(ab.heap, ab.ret, third)
       IN heap' = r.heap /\ left' = r.ret
    /\ mpc' = "right"
    /\ UNCHANGED <<base, override, result, pc, third, right>>
    /\ UNCHANGED loadVars /\ UNCHANGED serverVars /\ UNCHANGED httpVars

\* right := MergeConfigs(a, MergeConfigs(b, c))
MergeRight ==
    /\ mpc = "right"
    /\ LET bc == MergeConfigs(heap, override, third)
           r == MergeConfigs(bc.heap, base, bc.ret)
       IN heap' = r.heap /\ right' = r.ret
    /\ mpc' = "grouped"
    /\ UNCHANGED <<base, override, result, pc, third, left>>
    /\ UNCHANGED loadVars /\ UNCHANGED serverVars /\ UNCHANGED httpVars

NextAssoc == NewOperands \/ MergeLeft \/ MergeRight

SpecAssoc == InitAssoc /\ [][NextAssoc]_vars

(***************************************************************************)
(* Properties of the merger                                                *)
(***************************************************************************)
Merged == mpc = "merged"

BothPresent == base # NilPtr /\ override # NilPtr

C5_PresenceRule ==
    (Merged /\ BothPresent) =>
        LET r == Val(heap, result)
            b == Val(heap, base)
            o == Val(heap, override)
        IN /\ r.Port = (IF o.Port # 0 THEN o.Port ELSE b.Port)
           /\ r.AllowedOrigins = (IF Len(o.AllowedOrigins) > 0
                                  THEN o.AllowedOrigins
                                  ELSE b.AllowedOrigins)

\* a zero port that does not override next to a two-element list that does
C5_Witness ==
    /\ Merged /\ BothPresent
    /\ LET r == Val(heap, result)
           b == Val(heap, base)
           o == Val(heap, override)
       IN /\ o.Port = 0 /\ b.Port # 0 /\ r.Port = b.Port
          /\ Len(o.AllowedOrigins) = 2 /\ b.AllowedOrigins # <<>>
          /\ o.AllowedOrigins # b.AllowedOrigins
          /\ r.AllowedOrigins = o.AllowedOrigins

\* C6: for non-nil base and override, the merged EnableLogging is override's
\* boolean verbatim, so a base value of true is lost when override holds false.
C6_LoggingVerbatim ==
    (Merged /\ BothPresent) =>
        Val(heap, result).EnableLogging = Val(heap, override).EnableLogging

\* base enables logging, the override's boolean is false, the result is false
C6_Witness ==
    /\ Merged /\ BothPresent
    /\ Val(heap, base).EnableLogging = TRUE
    /\ Val(heap, override).EnableLogging = FALSE
    /\ Val(heap, result).EnableLogging = FALSE

\* C7: MergeConfigs(base, nil) equals base in every field, and
\* MergeConfigs(nil, override) equals MergeConfigs(GetDefaultConfig(), override).
C7_AbsentOperands ==
    /\ (Merged /\ base # NilPtr /\ override = NilPtr) =>
           Val(heap, result) = Val(heap, base)
    /\ (Merged /\ base = NilPtr) =>
           LET d == GetDefaultConfig(heap)
               m == MergeConfigs(d.heap, d.ret, override)
           IN Val(heap, result) = Val(m.heap, m.ret)

\* a nil base merged with an override that leaves the port unset
C7_Witness ==
    /\ Merged /\ base = NilPtr /\ override # NilPtr
    /\ Val(heap, override).Port = 0
    /\ Val(heap, override).AllowedOrigins = <<>>
    /\ Val(heap, result).Port = DefaultPort
    /\ Val(heap, result).AllowedOrigins = DefaultOrigins

\* the addresses a *Config occupies: the struct and its two backing arrays
Storage(h, p) ==
    IF p = NilPtr THEN {}
    ELSE {<<"cfg", p>>}
         \cup {<<"arr", a>> : a \in {h.cfgs[p].AllowedOrigins,
                                     h.cfgs[p].AllowedMethods} \ {NilPtr}}

\* C8: every merge, also one with a nil override, returns a value that shares
\* no storage with base or override, so that writing through the result
\* never changes an operand.
C8_NoSharedStorage ==
    Merged =>
        Storage(heap, result)
            \cap (Storage(heap, base) \cup Storage(heap, override)) = {}

(***************************************************************************)
(* Properties of loadConfiguration                                         *)
(***************************************************************************)
Loaded == pc = "loaded"

\* the keys of the "server" object of a file that LoadConfig accepted
FileServerKeys ==
    IF jsonCfg # NilPtr /\ "server" \in DOMAIN file.content.v
       /\ file.content.v["server"].t = "obj"
    THEN DOMAIN file.content.v["server"].v
    ELSE {}

EnvSets(key) == env.read = "ok" /\ key \in DOMAIN env.vars

\* C1: when the file was loaded and the .env does not set the key, a non-zero
\* port, a non-empty allowed_origins list or an enable_logging value given in
\* the file is the value of that field in the final Config.
C1_FileBeatsDefault ==
    (Loaded /\ jsonCfg # NilPtr) =>
        LET f == Val(heap, jsonCfg)
            final == Val(heap, cfg)
        IN /\ (~EnvSets("PORT") /\ f.Port # 0) => final.Port = f.Port
           /\ (~EnvSets("ALLOWED_ORIGINS") /\ f.AllowedOrigins # <<>>) =>
                  final.AllowedOrigins = f.AllowedOrigins
           /\ (~EnvSets("ENABLE_LOGGING")
               /\ "enable_logging" \in FileServerKeys) =>
                  final.EnableLogging = f.EnableLogging

\* C2: whenever the .env sets PORT to a valid non-zero integer,
\* ALLOWED_ORIGINS to a non-empty value or ENABLE_LOGGING to a valid boolean
\* token, the final Config carries the env value for that field, whatever
\* the file and the defaults say.
C2_EnvBeatsFile ==
    Loaded =>
        LET final == Val(heap, cfg)
        IN /\ (EnvSets("PORT") /\ Atoi(env.vars["PORT"]).ok
               /\ Atoi(env.vars["PORT"]).val # 0) =>
                  final.Port = Atoi(env.vars["PORT"]).val
           /\ (EnvSets("ALLOWED_ORIGINS")
               /\ env.vars["ALLOWED_ORIGINS"] # <<>>) =>
                  final.AllowedOrigins =
                      TrimAll(Split(env.vars["ALLOWED_ORIGINS"]))
           /\ (EnvSets("ENABLE_LOGGING")
               /\ ParseBool(env.vars["ENABLE_LOGGING"]).ok) =>
                  final.EnableLogging = ParseBool(env.vars["ENABLE_LOGGING"]).val

\* a file with port 3000, one origin and logging on against a .env with
\* PORT=4000, two padded origins and ENABLE_LOGGING=false
C2_Witness ==
    /\ Loaded /\ jsonCfg # NilPtr
    /\ Val(heap, jsonCfg).Port = 3000
    /\ Val(heap, jsonCfg).AllowedOrigins = <<OriginN(1)>>
    /\ Val(heap, jsonCfg).EnableLogging = TRUE
    /\ env = EnvFile(2, 2, 2, 0)
    /\ Val(heap, cfg).Port = 4000
    /\ Val(heap, cfg).AllowedOrigins = <<OriginN(1), OriginN(2)>>
    /\ Val(heap, cfg).EnableLogging = FALSE

\* C4: for every file content, legacy keys included, and every .env content
\* the final Config has ShutdownTimeout 30, ReadTimeout 10, WriteTimeout 10
\* and AllowedMethods [GET, POST, PUT, DELETE, OPTIONS].
C4_HardcodedFinal ==
    Loaded =>
        LET final == Val(heap, cfg)
        IN /\ final.ShutdownTimeout = 30
           /\ final.ReadTimeout = 10
           /\ final.WriteTimeout = 10
           /\ final.AllowedMethods = <<GET, POST, PUT, DELETE, OPTIONS>>

\* the loader did read 45/15/15 and [GET] from the file, and the .env
\* carries SHUTDOWN_TIMEOUT, yet the final value is 30
C4_Witness ==
    /\ Loaded /\ jsonCfg # NilPtr
    /\ Val(heap, jsonCfg).ShutdownTimeout = 45
    /\ Val(heap, jsonCfg).AllowedMethods = <<GET>>
    /\ EnvSets("SHUTDOWN_TIMEOUT")
    /\ Val(heap, cfg).ShutdownTimeout = 30

\* LoadEnvConfig has returned: envCfg is what it returned
EnvLoaded == pc \in {"mergeEnv", "loaded"}

\* the key is in the .env with a non-empty value
EnvHas(key) == EnvSets(key) /\ env.vars[key] # <<>>

\* the key is in the .env with an empty value or one that does not parse
EnvInvalid(key) ==
    /\ EnvSets(key)
    /\ \/ env.vars[key] = <<>>
       \/ key = "PORT" /\ ~Atoi(env.vars[key]).ok
       \/ key = "ENABLE_LOGGING" /\ ~ParseBool(env.vars[key]).ok

Commas(s) == Cardinality({i \in 1..Len(s) : s[i] = ","})

Stripped(s) == s = <<>> \/ (s[1] # " " /\ s[Len(s)] # " ")

\* C15: a .env that cannot be read for a reason other than non-existence
\* makes LoadEnvConfig return an error and the process exit non-zero before
\* a listener is bound.
C15_EnvReadErrorAborts ==
    (env.read = "error" /\ pc \notin {"getDefault", "loadFile", "loadEnv"}) =>
        (loadErr # "nil" /\ pc = "exit" /\ exitCode = 1 /\ listener = "none")

\* C16: a PORT, ALLOWED_ORIGINS or ENABLE_LOGGING of the process
\* environment is applied to the Config LoadEnvConfig returns and to the
\* final Config, with or without a .env file.
C16_ProcessEnvHonoured ==
    (EnvLoaded /\ "PORT" \in DOMAIN procEnv) =>
        LET e == Val(heap, envCfg)
            final == Val(heap, cfg)
        IN /\ e.Port = Atoi(procEnv["PORT"]).val
           /\ e.AllowedOrigins = TrimAll(Split(procEnv["ALLOWED_ORIGINS"]))
           /\ e.EnableLogging = ParseBool(procEnv["ENABLE_LOGGING"]).val
           /\ Loaded => /\ final.Port = e.Port
                        /\ final.AllowedOrigins = e.AllowedOrigins
                        /\ final.EnableLogging = e.EnableLogging

C18_EnvNeverFails ==
    /\ env.read # "error" => (loadErr = "nil" /\ pc # "exit")
    /\ (EnvLoaded /\ env.read = "missing") => Val(heap, envCfg) = DefaultValue
    /\ (EnvLoaded /\ env.read = "ok") =>
           LET e == Val(heap, envCfg)
           IN /\ EnvInvalid("PORT") =>
                     /\ e.Port = DefaultPort
                     /\ EnvHas("ALLOWED_ORIGINS") =>
                            e.AllowedOrigins # DefaultOrigins
                     /\ (EnvHas("ENABLE_LOGGING")
                         /\ ParseBool(env.vars["ENABLE_LOGGING"]).ok) =>
                            e.EnableLogging =
                                ParseBool(env.vars["ENABLE_LOGGING"]).val
              /\ EnvInvalid("ENABLE_LOGGING") =>
                     /\ e.EnableLogging = DefaultEnableLogging
                     /\ (EnvHas("PORT") /\ Atoi(env.vars["PORT"]).ok) =>
                            e.Port = Atoi(env.vars["PORT"]).val

\* PORT=x1 beside ENABLE_LOGGING=false and two origins: the port stays
\* 8080 and the other two keys are applied
C18_Witness ==
    /\ pc = "mergeEnv" /\ env = EnvFile(4, 2, 2, 0) /\ loadErr = "nil"
    /\ Val(heap, envCfg).Port = 8080
    /\ Val(heap, envCfg).AllowedOrigins = <<OriginN(1), OriginN(2)>>
    /\ Val(heap, envCfg).EnableLogging = FALSE

\* the type a value must have under each key of the "server" object
IntKeys == {"port", "ShutdownTimeout", "ReadTimeout", "WriteTimeout"}

ListKeys == {"allowed_origins", "AllowedMethods"}

BoolKeys == {"enable_logging"}

FitsField(key, v) ==
    \/ v.t = "null"
    \/ key \in IntKeys /\ v.t = "num"
    \/ key \in ListKeys /\ v.t = "arr"
    \/ key \in BoolKeys /\ v.t = "bool"
    \/ key \notin IntKeys \cup ListKeys \cup BoolKeys

\* well-formed JSON of the Config shape
ConfigShaped(doc) ==
    /\ doc.t = "obj"
    /\ "server" \in DOMAIN doc.v =>
           \/ doc.v["server"].t = "null"
           \/ /\ doc.v["server"].t = "obj"
              /\ \A key \in DOMAIN doc.v["server"].v :
                     FitsField(key, doc.v["server"].v[key])

\* C19: LoadConfig returns a not-found error for a path that does not
\* exist, a read error for an unreadable file and a parse error for content
\* that is not JSON of the Config shape, and with every error it returns a
\* nil Config and allocates nothing; the caller sees exactly that error.
C19_LoadConfigAtomic ==
    /\ (pc = "loadFile" /\ file.configPath) =>
           LET r == LoadConfig(heap, file)
           IN /\ ~file.exists => r.err = "NotFound"
              /\ (file.exists /\ ~file.readable) => r.err = "ReadError"
              /\ (file.exists /\ file.readable) =>
                     (r.err = "ParseError" <=> ~ConfigShaped(file.content))
              /\ r.err # "nil" => (r.ret = NilPtr /\ r.heap = heap)
              /\ r.err = "nil" => r.ret # NilPtr
    /\ (pc \notin {"getDefault", "loadFile"} /\ file.configPath) =>
           /\ jsonErr = LoadConfig(EmptyHeap, file).err
           /\ jsonErr # "nil" <=> jsonCfg = NilPtr

\* a file whose port is a string beside a valid origins list and a valid
\* enable_logging: a parse error, and nothing of the file was handed out
C19_Witness ==
    /\ pc = "loadEnv" /\ jsonErr = "ParseError" /\ jsonCfg = NilPtr
    /\ file = ServerFile(3, 1, 1, 0)
    /\ Len(heap.cfgs) = 1

(***************************************************************************)
(* Properties of the shutdown lifecycle                                    *)
(***************************************************************************)
Exited == pc = "exit"

\* C9: after a signal, when requests are still in flight as the drain
\* deadline elapses, the controller still finishes and the process exits
\* with status zero.
C9_DrainTimeoutExitsZero ==
    (Exited /\ shutdownCalls > 0 /\ ctxDone /\ active > 0) => exitCode = 0

\* C10: if the listener fails to bind, the process reports the error and
\* exits non-zero in every interleaving, also when a signal is pending
\* before the select has observed the error.
C10_BindFailureExitsNonZero ==
    (Exited /\ bindOutcome = "failed") =>
        (exitCode = 1 /\ "Server failed" \in logs)

Draining == pc \in {"shutdown", "shutdownPoll", "shutdownWait"}

\* C11: a controller that took the server error returns it without calling
\* Shutdown; Shutdown is called at most once in a run, and only after a
\* signal was received.
C11_NoDrainOnError ==
    /\ retErr = "serverErr" => shutdownCalls = 0
    /\ shutdownCalls <= 1
    /\ shutdownCalls > 0 => "Received signal" \in logs

\* the error was taken, a signal arrived afterwards, the process left with
\* status 1 and Shutdown was never called
C11_Witness ==
    /\ Exited /\ retErr = "serverErr" /\ exitCode = 1
    /\ sigChan = 1 /\ shutdownCalls = 0 /\ ~inShutdown

C13_NoAcceptWhileDraining ==
    [][/\ shutdownCalls > 0 => accepted' = accepted
       /\ shutdownCalls' > shutdownCalls => active' = active
       /\ (shutdownCalls > 0 /\ active' # active) => active' = active - 1]_vars

\* two requests were in flight when the drain began and one has completed
\* since, while the controller is still draining
C13_Witness ==
    /\ Running /\ Draining /\ shutdownCalls = 1
    /\ inFlightAtDrain = 2 /\ active = 1 /\ accepted = 2
    /\ listener = "closed"

\* C14: once the controller has received the signal it eventually returns
\* and the process exits, also when a handler never completes.
C14_DrainTerminates == Draining ~> Exited

\* the process has exited after the deadline with a request still running
C14_Witness ==
    /\ Exited /\ shutdownCalls = 1 /\ ctxDone
    /\ active > 0 /\ active = inFlightAtDrain

\* the file was given and LoadConfig failed on it
FileFailed == jsonErr # "nil"

C20_Safe ==
    FileFailed =>
        /\ jsonCfg = NilPtr /\ loadErr = "nil"
        /\ pc = "loadEnv" => (cfg = 1 /\ Val(heap, cfg) = DefaultValue)
        /\ (pc = "loaded" /\ env.read # "ok") => Val(heap, cfg) = DefaultValue
        /\ pc \in {"mergeEnv", "loaded"} => envCfg # NilPtr
        /\ Exited => gpc # "idle"

\* C20: when LoadConfig fails the working configuration stays the default
\* one, the env merge still runs, loadConfiguration returns no error and
\* the server goroutine is started: the failure never ends the process
\* before ListenAndServe is called.
C20_FileFailureNotFatal ==
    /\ []C20_Safe
    /\ FileFailed ~> (gpc # "idle")

\* a file that is not JSON, and the listener is open
C20_Witness ==
    /\ jsonErr = "ParseError" /\ file = OtherFile(3)
    /\ listener = "open" /\ loadErr = "nil" /\ Running

(***************************************************************************)
(* Properties of the file format                                           *)
(***************************************************************************)
\* C21: the Config returned by LoadConfig for a well-formed file has
\* ShutdownTimeout, ReadTimeout and WriteTimeout 0 and no AllowedMethods,
\* whatever entries the file has for them.
C21_HardcodedNotRead ==
    jsonCfg # NilPtr =>
        LET f == Val(heap, jsonCfg)
        IN /\ f.ShutdownTimeout = 0
           /\ f.ReadTimeout = 0
           /\ f.WriteTimeout = 0
           /\ f.AllowedMethods = <<>>

\* reflect.DeepEqual on two *Config: equal fields, and a nil slice only
\* equals a nil slice
DeepEqual(h, p, q) ==
    /\ Val(h, p) = Val(h, q)
    /\ h.cfgs[p].AllowedOrigins = NilPtr <=> h.cfgs[q].AllowedOrigins = NilPtr
    /\ h.cfgs[p].AllowedMethods = NilPtr <=> h.cfgs[q].AllowedMethods = NilPtr

C23_FixedPathLoaded ==
    (~file.configPath /\ pc \notin {"getDefault", "loadFile"}) =>
        /\ (file.exists /\ file.readable /\ ConfigShaped(file.content)) =>
               /\ jsonCfg # NilPtr
               /\ pc = "loadEnv" =>
                      Val(heap, cfg) = Val(heap, MergeConfigs(heap, 1, jsonCfg).ret)
        /\ ~file.exists => (jsonCfg = NilPtr /\ loadErr = "nil")

RouteServed == mpc = "served" /\ chained # <<>> /\ chained.kind = "cors"

\* the run of Chain(m1, ..., mn)(final) has returned
ChainServed ==
    mpc = "served" /\ chained # <<>> /\ chained.kind \in {"mw", "final"}

\* C25: GET / is answered 200 "success", GET /health 200 "healthy", every
\* other path or method 404 "error", and every response has Content-Type
\* application/json.
C25_Routing ==
    RouteServed =>
        /\ resp.contentType = "application/json"
        /\ IF req.method = GET /\ req.path = "/"
           THEN resp.status = 200 /\ resp.body = "success"
           ELSE IF req.method = GET /\ req.path = "/health"
           THEN resp.status = 200 /\ resp.body = "healthy"
           ELSE resp.status = 404 /\ resp.body = "error"

\* m1-before, ..., mn-before, final, mn-after, ..., m1-after
ExpectedOrder(ms) ==
    LET n == Len(ms)
    IN [i \in 1..(2 * n + 1) |->
            IF i <= n THEN <<ms[i].id, "before">>
            ELSE IF i = n + 1 THEN <<0, "final">>
            ELSE <<ms[2 * n + 2 - i].id, "after">>]

\* C26: Chain(m1, ..., mn)(final) runs the pre-handler steps in the order
\* m1, ..., mn, then final once, then the post-handler steps in the order
\* mn, ..., m1; with no middleware it is final itself.
C26_ChainOrder ==
    /\ ChainServed => executionOrder = ExpectedOrder(middlewares)
    /\ (mpc \in {"serving", "served"} /\ middlewares = <<>>) =>
           chained = FinalHandler

\* three different middlewares have run around the final handler
C26_Witness ==
    /\ ChainServed
    /\ middlewares = <<TestMiddleware(1), TestMiddleware(2), TestMiddleware(3)>>
    /\ executionOrder = <<<<1, "before">>, <<2, "before">>, <<3, "before">>,
                          <<0, "final">>,
                          <<3, "after">>, <<2, "after">>, <<1, "after">>>>

(***************************************************************************)
(* Properties of the lifecycle and of the error channel                    *)
(***************************************************************************)
\* C27: the controller starts to drain only while the server goroutine is
\* accepting, a drain never ends in the error exit, and an exited process
\* takes no further step.
C27_LifecycleTransitions ==
    [][/\ (pc = "select" /\ pc' = "shutdown") => gpc = "accepting"
       /\ (Draining /\ pc' = "return") => retErr' = "nil"
       /\ Exited => UNCHANGED <<pc, gpc, exitCode, retErr>>]_vars

\* the goroutine is at its send and the channel has room
SendReady == (Running /\ gpc = "send") => ENABLED GSendErr

\* C28: the server goroutine sends at most once on the error channel, and
\* not at all when ListenAndServe ends because of Shutdown; the send finds
\* room in the channel whatever the controller is doing, and the goroutine
\* ends.
C28_SingleNonBlockingSend ==
    /\ [][/\ serverErr' > serverErr =>
                 (gpc = "send" /\ gpc' = "done" /\ serverErr' = 1)
          /\ gpc = "done" => gpc' = "done"
          /\ (inShutdown /\ gpc # "send" /\ gpc' # gpc) =>
                 (gpc' = "done" /\ serverErr' = serverErr)]_vars
    /\ []SendReady
    /\ (gpc = "send") ~> (gpc = "done" \/ Exited)

\* the bind failed after the controller had taken the signal: the error was
\* sent all the same and stays in the channel
C28_Witness ==
    /\ shutdownCalls = 1 /\ bindOutcome = "failed"
    /\ gpc = "done" /\ serverErr = 1 /\ retErr = "nil"

(***************************************************************************)
(* Algebra of the merger and the final configuration                       *)
(***************************************************************************)
\* C29: for non-nil a, b and c, MergeConfigs(MergeConfigs(a, b), c) and
\* MergeConfigs(a, MergeConfigs(b, c)) are equal in every field.
C29_Associative ==
    mpc = "grouped" =>
        /\ left # NilPtr /\ right # NilPtr /\ left # right
        /\ DeepEqual(heap, left, right)

\* b alone sets a port and origins, c has neither, a has its own timeouts:
\* both groupings give b's port and origins, a's timeouts and c's logging
C29_Witness ==
    /\ mpc = "grouped"
    /\ Val(heap, base).Port = 1000 /\ Val(heap, override).Port = 2000
    /\ Val(heap, third).Port = 0
    /\ Val(heap, override).AllowedOrigins = <<OriginN(2)>>
    /\ heap.cfgs[third].AllowedOrigins = NilPtr
    /\ Val(heap, base).WriteTimeout = 12 /\ Val(heap, third).WriteTimeout = 32
    /\ Val(heap, base).EnableLogging # Val(heap, third).EnableLogging
    /\ Val(heap, right).Port = 2000
    /\ Val(heap, right).AllowedOrigins = <<OriginN(2)>>
    /\ Val(heap, right).WriteTimeout = 12
    /\ Val(heap, right).EnableLogging = Val(heap, third).EnableLogging

\* C30: whatever the file and the .env contain, the Config returned by
\* loadConfiguration has a Port other than 0 and at least one allowed
\* origin.
C30_NoUnsetFinal ==
    Loaded =>
        /\ Val(heap, cfg).Port # 0
        /\ Len(Val(heap, cfg).AllowedOrigins) > 0

\* port 0 and an empty allowed_origins in the file, PORT=0 and an empty
\* ALLOWED_ORIGINS in the .env: the final values are the default ones
C30_Witness ==
    /\ Loaded /\ jsonCfg # NilPtr
    /\ Val(heap, jsonCfg).Port = 0
    /\ "allowed_origins" \in FileServerKeys
    /\ Val(heap, jsonCfg).AllowedOrigins = <<>>
    /\ EnvSets("PORT") /\ env.vars["PORT"] = <<"0">>
    /\ Val(heap, envCfg).Port = 0
    /\ EnvSets("ALLOWED_ORIGINS") /\ env.vars["ALLOWED_ORIGINS"] = <<>>
    /\ Val(heap, cfg).Port = DefaultPort
    /\ Val(heap, cfg).AllowedOrigins = DefaultOrigins

====
